---- MODULE Spec2Model ----
\* A model of debug/testlib.py: the test runner (run_tests, BaseTest.run,
\* print_results), the process wrappers (Spike, VcsSim, Openocd) and the
\* multi-session gdb driver (Gdb, PrivateState).
EXTENDS Integers, Sequences, FiniteSets, TLC

\* ------------------------------------------------------------------ bounds
\* Longest todo list handed to run_tests.
NumTests == 3
\* Most log lines a spawned process writes while its wrapper waits for it.
MaxLines == 3
\* The number of gdb sessions (ports) of a Gdb object.
NumChildren == 2
\* Most Gdb methods a test calls after connect.
MaxOps == 2
\* Most time.sleep(0.1) calls of Openocd.start that are counted.
MaxSleeps == 2
\* Most times the __del__ of one wrapper runs.
MaxDels == 2
\* Most harts of a target.
MaxHarts == 2
\* Most PrivateState blocks open inside one another.
MaxDepth == 2

VARIABLES
    \* ---- run_tests / BaseTest.run / print_results
    fail_fast,   \* parsed.fail_fast
    todo,        \* the todo list (test names)
    idx,         \* position of the for loop of run_tests in todo
    results,     \* the results dict: outcome -> list of (name, log) entries
    count,       \* count of run_tests
    rpc,         \* position of the runner
    t,           \* the test instance being run and the locals of its run()
    ret,         \* how run() ended: a returned value or a raised exception
    executed,    \* history: the names whose run() was called, in order
    outcomes,    \* history: the outcome recorded for each executed test
    exit_code,   \* what print_results returned
    \* ---- Spike / VcsSim / Openocd and the process each one spawns
    wkind,       \* the wrapper class
    with_jtag_gdb, \* Spike.__init__'s with_jtag_gdb
    wpc,         \* position of the wrapper: its constructor, then its release
    err,         \* why the constructor raised
    proc,        \* the spawned OS process
    self_process, \* the wrapper's self.process attribute
    announce,    \* the digits of the port the simulator announces
    annWritten,  \* how much of the announcement line is in the simulator log
    unread,      \* log lines written that readline has not returned yet
    written,     \* the number of log lines the process has written
    polls,       \* iterations of Spike's search loop so far
    sleeps,      \* time.sleep calls of Spike's and Openocd's wait loop so far
    port,        \* self.port
    gdb_ports,   \* Openocd's self.gdb_ports
    expired,     \* time.time() - start > self.timeout
    dels,        \* history: each run of __del__, what it raised and did
    \* ---- Gdb and the gdb front-ends it drives through pexpect
    binary,      \* whether self.binary is set
    threadsOf,   \* the threads each gdb lists for "info threads"
    active_child, \* self.active_child
    stack,       \* self.stack
    harts,       \* self.harts: hart id -> (child, thread)
    inbuf,       \* per child: output of gdb that expect has not consumed
    before,      \* per child: child.before
    stdin,       \* per child: lines sent that gdb has not read yet
    intr,        \* per child: a ctrl-C sent that gdb has not acted on yet
    gst,         \* per child: what the gdb process is doing
    prog,        \* the pexpect calls and state changes the running method has left
    cur,         \* the Gdb method running or last run, and how it ended
    nops,        \* the number of methods called since connect
    gtrace,      \* history: the sends and waits of the method, in order
    \* ---- run_all_tests
    misa,        \* hart.misa of each hart of target.harts
    misaval,     \* parsed.misaval
    parsed_test, \* parsed.test: the test-name filter
    module,      \* the names dir(module) lists, in order
    all_todo,    \* the todo list run_all_tests builds
    examine_added, \* examine_added
    spc,         \* position of run_all_tests
    si           \* position of its current for loop

runVars == <<fail_fast, todo, idx, results, count, rpc, t, ret, executed,
             outcomes, exit_code>>

procVars == <<wkind, with_jtag_gdb, wpc, err, proc, self_process, announce,
              annWritten, unread, written, polls, sleeps, port, gdb_ports,
              expired, dels>>

gdbVars == <<binary, threadsOf, active_child, stack, harts, inbuf, before,
             stdin, intr, gst, prog, cur, nops, gtrace>>

schedVars == <<misa, misaval, parsed_test, module, all_todo, examine_added,
               spc, si>>

vars == <<runVars, procVars, gdbVars, schedVars>>

\* What the runner's steps, and the wrappers' steps, leave alone.
notRun == <<procVars, gdbVars, schedVars>>
notProc == <<runVars, gdbVars, schedVars>>
notGdb == <<runVars, procVars, schedVars>>
notSched == <<runVars, procVars, gdbVars>>


\* ======================================================= process wrappers

\* range(30) of Spike's search loop.
SpikePolls == 30

\* Ports a simulator announces, as the decimal digits it prints.
AnnouncedPorts == {<<7>>, <<4, 2>>, <<1, 0, 5>>}

\* Ports OpenOCD and the VCS simulator print in their log lines.
LinePorts == {3333, 3334}

\* int(): the value of a string of decimal digits.
RECURSIVE int(_)
int(ds) == IF ds = <<>> THEN 0 ELSE 10 * int(SubSeq(ds, 1, Len(ds) - 1)) + ds[Len(ds)]

\* self.port = None
None == -1

\* The simulator log holds annWritten pieces of the line "Listening for remote
\* bitbang connection on port <digits>.": first the text up to the digits, then
\* the digits one at a time, then the closing ".".
DigitsIn(w, ds) == IF w - 1 > Len(ds) THEN Len(ds) ELSE IF w < 1 THEN 0 ELSE w - 1
LineComplete(w, ds) == w = Len(ds) + 2

\* re.search(r"Listening for remote bitbang connection on port (\d+).", log):
\* the digits of group 1, or <<>> when there is no match. (\d+) is greedy and
\* the final "." matches any character: on a complete line group 1 is every
\* digit; on a line still being written the last digit present is taken by "."
\* and group 1 is the digits before it.
SpikeSearch(w, ds) ==
    IF LineComplete(w, ds) THEN ds
    ELSE IF DigitsIn(w, ds) >= 2 THEN SubSeq(ds, 1, DigitsIn(w, ds) - 1)
    ELSE <<>>

\* The lines a process writes to its log, as far as the wrappers tell them
\* apart.
VcsLines == {[kind |-> "other", port |-> 0]}
              \cup {[kind |-> "listen", port |-> p] : p \in LinePorts}
OpenocdLines == {[kind |-> "other", port |-> 0], [kind |-> "telnet", port |-> 0]}
                  \cup {[kind |-> "gdbport", port |-> p] : p \in LinePorts}

\* The state before a wrapper is constructed.
IdleProc ==
    /\ wpc = "new"
    /\ err = "none"
    /\ proc = "none"
    /\ self_process = "unset"
    /\ annWritten = 0
    /\ unread = <<>>
    /\ written = 0
    /\ polls = 0
    /\ sleeps = 0
    /\ port = None
    /\ gdb_ports = <<>>
    /\ expired = FALSE
    /\ dels = <<>>

InitProc ==
    /\ wkind \in {"Spike", "VcsSim", "Openocd"}
    /\ with_jtag_gdb \in BOOLEAN
    /\ wkind # "Spike" => with_jtag_gdb
    /\ announce \in AnnouncedPorts
    /\ IdleProc

\* The constructor fails before subprocess.Popen has spawned anything (the
\* compile of Spike.__init__, the open of the log file, Popen itself). Spike
\* has set self.process = None by then; the others have no such attribute.
SpawnFail ==
    /\ wpc = "new"
    /\ wpc' = "raised"
    /\ err' = "spawn"
    /\ self_process' = IF wkind = "Spike" THEN "None" ELSE "unset"
    /\ UNCHANGED notProc
    /\ UNCHANGED <<dels, wkind, with_jtag_gdb, proc, announce, annWritten, unread,
                   written, polls, sleeps, port, gdb_ports, expired>>

\* subprocess.Popen(cmd, ...). Spike and VcsSim store it in self.process at
\* once; Openocd.start keeps it in the local variable process. Spike without
\* with_jtag_gdb is then constructed.
Spawn ==
    /\ wpc = "new"
    /\ proc' = "running"
    /\ self_process' = IF wkind = "Openocd" THEN "unset" ELSE "set"
    /\ wpc' = IF wkind = "Spike" /\ ~with_jtag_gdb THEN "constructed" ELSE "wait"
    /\ UNCHANGED notProc
    /\ UNCHANGED <<dels, wkind, with_jtag_gdb, err, announce, annWritten, unread,
                   written, polls, sleeps, port, gdb_ports, expired>>

\* One iteration of "for _ in range(30)" of Spike.__init__: search the whole
\* log; on a match set self.port and break, else sleep 0.11 s.
SpikePoll ==
    /\ wkind = "Spike"
    /\ wpc = "wait"
    /\ polls < SpikePolls
    /\ polls' = polls + 1
    /\ IF SpikeSearch(annWritten, announce) # <<>>
         THEN /\ port' = int(SpikeSearch(annWritten, announce))
              /\ wpc' = "after_loop"
              /\ sleeps' = sleeps
         ELSE /\ sleeps' = sleeps + 1
              /\ UNCHANGED <<port, wpc>>
    /\ UNCHANGED notProc
    /\ UNCHANGED <<dels, wkind, with_jtag_gdb, err, proc, self_process, announce,
                   annWritten, unread, written, gdb_ports, expired>>

\* range(30) is exhausted: the for loop ends without a break.
SpikeLoopEnd ==
    /\ wkind = "Spike"
    /\ wpc = "wait"
    /\ polls = SpikePolls
    /\ wpc' = "after_loop"
    /\ UNCHANGED notProc
    /\ UNCHANGED <<dels, wkind, with_jtag_gdb, err, proc, self_process, announce,
                   annWritten, unread, written, polls, sleeps, port, gdb_ports,
                   expired>>

\* "if not self.port": None and 0 are both false.
NotPortMutant(p) == FALSE
NotPort(p) == p = None \/ p = 0

\* if not self.port: print_log(...); raise Exception("Didn't get spike message
\* about bitbang connection")
SpikeAfterLoop ==
    /\ wkind = "Spike"
    /\ wpc = "after_loop"
    /\ IF NotPort(port)
         THEN wpc' = "raised" /\ err' = "no_port"
         ELSE wpc' = "constructed" /\ err' = err
    /\ UNCHANGED notProc
    /\ UNCHANGED <<dels, wkind, with_jtag_gdb, proc, self_process, announce,
                   annWritten, unread, written, polls, sleeps, port, gdb_ports,
                   expired>>

\* listenfile.readline() / fd.readline(): the next unread line, if any.
HasLine == unread # <<>>

\* One iteration of "while not done" of VcsSim.__init__: fail if the simulator
\* has exited; read a line, sleep 1 s if there is none; a "Listening on port N"
\* line ends the loop with self.port = N. The loop reads no clock. The sleeps
\* are counted up to MaxSleeps.
VcsPoll ==
    /\ wkind = "VcsSim"
    /\ wpc = "wait"
    /\ IF proc # "running"
         THEN /\ wpc' = "raised" /\ err' = "exited_early"
              /\ proc' = "reaped"
              /\ UNCHANGED <<unread, port, sleeps>>
         ELSE /\ UNCHANGED <<proc, err>>
              /\ IF HasLine
                   THEN /\ unread' = Tail(unread)
                        /\ sleeps' = sleeps
                        /\ IF Head(unread).kind = "listen"
                             THEN port' = Head(unread).port /\ wpc' = "constructed"
                             ELSE UNCHANGED <<port, wpc>>
                   ELSE /\ sleeps' = (IF sleeps < MaxSleeps THEN sleeps + 1
                                      ELSE sleeps)
                        /\ UNCHANGED <<unread, port, wpc>>
    /\ UNCHANGED notProc
    /\ UNCHANGED <<dels, wkind, with_jtag_gdb, self_process, announce, annWritten,
                   written, polls, gdb_ports, expired>>

\* One iteration of "while True" of Openocd.start. Without a line: raise if
\* the process has exited, else sleep 0.1 s and continue. With a line: note a
\* gdb port, return the process on "telnet server disabled" (__init__ then
\* stores it in self.process), and only then look at the clock. The except
\* clause prints the log and re-raises, and self.process is never assigned.
\* The sleeps are counted up to MaxSleeps.
OpenocdPoll ==
    /\ wkind = "Openocd"
    /\ wpc = "wait"
    /\ IF ~HasLine
         THEN /\ IF proc # "running"
                   THEN /\ wpc' = "raised" /\ err' = "exited_early"
                        /\ proc' = "reaped"
                        /\ sleeps' = sleeps
                   ELSE /\ sleeps' = (IF sleeps < MaxSleeps THEN sleeps + 1
                                      ELSE sleeps)
                        /\ UNCHANGED <<wpc, err, proc>>
              /\ UNCHANGED <<unread, gdb_ports, self_process>>
         ELSE /\ unread' = Tail(unread)
              /\ sleeps' = sleeps
              /\ gdb_ports' = IF Head(unread).kind = "gdbport"
                                THEN Append(gdb_ports, Head(unread).port)
                                ELSE gdb_ports
              /\ proc' = proc
              /\ IF Head(unread).kind = "telnet"
                   THEN wpc' = "constructed" /\ self_process' = "set" /\ err' = err
                   ELSE IF expired
                     THEN wpc' = "raised" /\ err' = "timeout"
                          /\ self_process' = self_process
                     ELSE UNCHANGED <<wpc, err, self_process>>
    /\ UNCHANGED notProc
    /\ UNCHANGED <<dels, wkind, with_jtag_gdb, announce, annWritten, written,
                   polls, port, expired>>

\* The simulator writes the next piece of its announcement line to the log.
SimAnnounce ==
    /\ wkind = "Spike"
    /\ proc = "running"
    /\ ~LineComplete(annWritten, announce)
    /\ annWritten' = annWritten + 1
    /\ UNCHANGED notProc
    /\ UNCHANGED <<dels, wkind, with_jtag_gdb, wpc, err, proc, self_process, announce,
                   unread, written, polls, sleeps, port, gdb_ports, expired>>

\* The VCS simulator or OpenOCD writes a line to its log.
ProcWrite ==
    /\ wkind \in {"VcsSim", "Openocd"}
    /\ proc = "running"
    /\ written < MaxLines
    /\ \E l \in (IF wkind = "VcsSim" THEN VcsLines ELSE OpenocdLines) :
         unread' = Append(unread, l)
    /\ written' = written + 1
    /\ UNCHANGED notProc
    /\ UNCHANGED <<dels, wkind, with_jtag_gdb, wpc, err, proc, self_process, announce,
                   annWritten, polls, sleeps, port, gdb_ports, expired>>

\* The process exits on its own.
ProcExit ==
    /\ proc = "running"
    /\ proc' = "exited"
    /\ UNCHANGED notProc
    /\ UNCHANGED <<dels, wkind, with_jtag_gdb, wpc, err, self_process, announce,
                   annWritten, unread, written, polls, sleeps, port, gdb_ports,
                   expired>>

\* Time passes: more than self.timeout seconds since Openocd.start began; for
\* VcsSim, which has no timeout of its own, more than any time a startup may
\* be given.
Tick ==
    /\ wkind \in {"Openocd", "VcsSim"}
    /\ wpc = "wait"
    /\ ~expired
    /\ expired' = TRUE
    /\ UNCHANGED notProc
    /\ UNCHANGED <<dels, wkind, with_jtag_gdb, wpc, err, proc, self_process, announce,
                   annWritten, unread, written, polls, sleeps, port, gdb_ports>>

\* What __del__ does to the process: self.process.kill(); self.process.wait().
\* Spike skips both when self.process is None; without the attribute the call
\* raises AttributeError before anything is killed.
KillMutant(pr, sp) == pr
Kill(pr, sp) == IF sp = "set" /\ pr # "none" THEN "reaped" ELSE pr

\* The exception that leaves __del__: Spike tests self.process first, Openocd
\* catches AttributeError, VcsSim catches OSError alone, so the missing
\* attribute of a VcsSim whose constructor raised before Popen returned gets
\* out. The OSError of a kill() of a process already reaped is caught by all.
DelRaises(kind, sp) ==
    IF kind = "VcsSim" /\ sp = "unset" THEN "AttributeError" ELSE "none"

\* The wrapper is released (del self.server, del self.target_process, or the
\* object of a constructor that raised is dropped) and its __del__ runs; or
\* __del__ is run once more on a wrapper already released.
Release ==
    /\ wpc \in {"constructed", "raised", "released"}
    /\ Len(dels) < MaxDels
    /\ proc' = Kill(proc, self_process)
    /\ dels' = Append(dels, [exc |-> DelRaises(wkind, self_process),
                             before |-> proc,
                             after |-> Kill(proc, self_process)])
    /\ wpc' = "released"
    /\ UNCHANGED notProc
    /\ UNCHANGED <<wkind, with_jtag_gdb, err, self_process, announce,
                   annWritten, unread, written, polls, sleeps, port, gdb_ports,
                   expired>>

NextProc ==
    \/ SpawnFail
    \/ Spawn
    \/ SpikePoll
    \/ SpikeLoopEnd
    \/ SpikeAfterLoop
    \/ VcsPoll
    \/ OpenocdPoll
    \/ SimAnnounce
    \/ ProcWrite
    \/ ProcExit
    \/ Tick
    \/ Release

\* ---------------------------------------------- claims: process wrappers

\* C4: every process spawned by Spike, VcsSim or Openocd is dead once its
\* wrapper has been released, on every exit path, a failed startup wait
\* included.
C4_KilledOnRelease == wpc = "released" => proc # "running"

\* The constructor of a Spike with with_jtag_gdb is over.
SpikeDiscoveryOver ==
    /\ wkind = "Spike"
    /\ with_jtag_gdb
    /\ wpc \in {"constructed", "raised", "released"}
    /\ err # "spawn"

\* C10: when the simulator log never holds a match for the bitbang-port
\* announcement, Spike's port discovery raises, and it raises only after all
\* 30 polls and the 0.11 s sleep after each of them; a Spike with
\* with_jtag_gdb is never constructed with the port undiscovered.
C10_DiscoveryTimeout ==
    /\ (SpikeDiscoveryOver /\ SpikeSearch(annWritten, announce) = <<>>) =>
           err = "no_port"
    /\ err = "no_port" =>
           /\ polls = SpikePolls
           /\ sleeps = SpikePolls
           /\ port = None
           /\ wpc \in {"raised", "released"}
    /\ (SpikeDiscoveryOver /\ err = "none") => port \notin {None, 0}

\* C10 witness: discovery raised after 30 polls of a log without announcement,
\* the simulator still running.
C10_Witness ==
    /\ wkind = "Spike"
    /\ wpc = "raised"
    /\ err = "no_port"
    /\ polls = SpikePolls
    /\ annWritten = 0
    /\ proc = "running"

\* One iteration of the loop of Openocd.start has run: it slept, read a line,
\* returned or raised.
OpenocdIterates ==
    \/ sleeps' # sleeps
    \/ Len(unread') < Len(unread)
    \/ wpc' # wpc

\* C11: the startup wait of Openocd.start is bounded by self.timeout: once
\* the timeout has elapsed, an iteration of its loop that finds the process
\* alive and does not read "telnet server disabled" raises the timed-out
\* error; it never goes on waiting, whether the log grows or not.
C11_BoundedStartupWait ==
    [][(/\ wkind = "Openocd"
        /\ wpc = "wait"
        /\ expired
        /\ proc = "running"
        /\ OpenocdIterates
        /\ wpc' # "constructed")
          => (wpc' = "raised" /\ err' = "timeout")]_vars

\* One iteration of the loop of VcsSim.__init__ has run: it slept, read a
\* line, ended the loop or raised.
VcsIterates ==
    \/ sleeps' # sleeps
    \/ Len(unread') < Len(unread)
    \/ wpc' # wpc

\* C21: the startup wait of VcsSim.__init__ is bounded: once the time allowed
\* has elapsed, an iteration of its loop that finds the simulator alive and
\* does not read "Listening on port N" raises; it never goes on waiting.
C21_BoundedVcsWait ==
    [][(/\ wkind = "VcsSim"
        /\ wpc = "wait"
        /\ expired
        /\ proc = "running"
        /\ VcsIterates
        /\ wpc' # "constructed")
          => wpc' = "raised"]_vars

\* C17: the __del__ of Spike, VcsSim and Openocd raises nothing, whether the
\* process runs, has exited or was never started, and a second run of it
\* changes nothing.
C17_TeardownIdempotent ==
    \A i \in DOMAIN dels :
        /\ dels[i].exc = "none"
        /\ i > 1 => dels[i].after = dels[i].before

\* C20: whenever Spike has set self.port (and REMOTE_BITBANG_PORT, from the
\* same match), it is the port the simulator announces, however the polls
\* and the simulator's writes to the log interleave.
C20_PortIsAnnounced ==
    (wkind = "Spike" /\ port # None) => port = int(announce)

\* ================================================================== runner

\* good_results of the source.
good_results == {"pass", "not_applicable"}

\* Exceptions a lifecycle phase can raise. "Exception" stands for any other
\* subclass of Exception (pexpect.TIMEOUT, AssertionError, CannotAccess, ...);
\* "SystemExit" for one that is not a subclass of Exception, as raised by the
\* exit(1) of Openocd.__init__ when the config file is not found.
ExcKinds == {"TestFailed", "TestNotApplicable", "Exception", "SystemExit"}

\* isinstance(e, Exception)
IsException(e) == e \in {"TestFailed", "TestNotApplicable", "Exception"}

\* What a test body can return: None (or another false value), the string
\* 'not_applicable', or some other true value.
BodyReturns == {"None", "not_applicable", "other"}

\* Python truth of a returned value.
Truthy(v) == v # "None"

NoRet == [kind |-> "none", val |-> "None", exc |-> "none", origin |-> "none"]
Returned(v) == [kind |-> "return", val |-> v, exc |-> "none", origin |-> "none"]
Raised(e, o) == [kind |-> "raise", val |-> "None", exc |-> e, origin |-> o]

\* BaseTest.__init__ (and GdbTest.__init__): a fresh instance, nothing owned.
NewInstance ==
    [early |-> TRUE, lifeExc |-> "none", bodyRet |-> "unset",
     result |-> "unset", pending |-> NoRet, logs |-> FALSE, owned |-> FALSE,
     teardowns |-> 0, events |-> <<>>]

InitRun ==
    /\ fail_fast \in BOOLEAN
    /\ todo \in {[k \in 1..n |-> k] : n \in 0..NumTests}
    /\ idx = 1
    /\ results = [k \in {} |-> <<>>]
    /\ count = 0
    /\ rpc = "loop"
    /\ t = NewInstance
    /\ ret = NoRet
    /\ executed = <<>>
    /\ outcomes = <<>>
    /\ exit_code = -1

\* run_tests, top of the for loop: open the log, instantiate the test, redirect
\* stdout and call instance.run().
StartTest ==
    /\ rpc = "loop"
    /\ idx <= Len(todo)
    /\ t' = NewInstance
    /\ ret' = NoRet
    /\ executed' = Append(executed, todo[idx])
    /\ rpc' = "run"
    /\ UNCHANGED notRun
    /\ UNCHANGED <<fail_fast, todo, idx, results, count, outcomes, exit_code>>

\* BaseTest.run up to the try: a test that is not early_applicable returns
\* 'not_applicable' before the try/finally is entered.
EarlyApplicable ==
    /\ rpc = "run"
    /\ \E ea \in BOOLEAN :
         /\ t' = [t EXCEPT !.early = ea]
         /\ IF ea
              THEN rpc' = "classSetup" /\ ret' = ret
              ELSE rpc' = "ran" /\ ret' = Returned("not_applicable")
    /\ UNCHANGED notRun
    /\ UNCHANGED <<fail_fast, todo, idx, results, count, executed, outcomes,
                   exit_code>>

\* A lifecycle phase raised e: control goes to the except clauses of run().
RaiseInLifecycle(e, inst) ==
    /\ t' = [inst EXCEPT !.lifeExc = e]
    /\ rpc' = "except"

\* self.classSetup(): compile, create the target process, start the server
\* (GdbTest: and the gdb sessions). When it raises, either nothing was created
\* yet (compile failed) or the target process and its log already exist.
ClassSetup ==
    /\ rpc = "classSetup"
    /\ \/ /\ t' = [t EXCEPT !.logs = TRUE, !.owned = TRUE,
                            !.events = Append(@, "classSetup")]
          /\ rpc' = "setup"
       \/ \E e \in ExcKinds, made \in BOOLEAN :
            RaiseInLifecycle(e, [t EXCEPT !.logs = made, !.owned = made,
                                          !.events = Append(@, "classSetup")])
    /\ UNCHANGED notRun
    /\ UNCHANGED <<fail_fast, todo, idx, results, count, ret, executed,
                   outcomes, exit_code>>

\* self.setup()
Setup ==
    /\ rpc = "setup"
    /\ \/ /\ t' = [t EXCEPT !.events = Append(@, "setup")]
          /\ rpc' = "test"
       \/ \E e \in ExcKinds :
            RaiseInLifecycle(e, [t EXCEPT !.events = Append(@, "setup")])
    /\ UNCHANGED notRun
    /\ UNCHANGED <<fail_fast, todo, idx, results, count, ret, executed,
                   outcomes, exit_code>>

\* result = self.test(): the body returns a value or raises. After a normal
\* return the try block is left and the finally clause runs.
Test ==
    /\ rpc = "test"
    /\ \/ \E v \in BodyReturns :
            /\ t' = [t EXCEPT !.bodyRet = v, !.result = v,
                              !.events = Append(@, "test")]
            /\ rpc' = "finally"
       \/ \E e \in ExcKinds :
            RaiseInLifecycle(e, [t EXCEPT !.events = Append(@, "test")])
    /\ UNCHANGED notRun
    /\ UNCHANGED <<fail_fast, todo, idx, results, count, ret, executed,
                   outcomes, exit_code>>

\* The result the except clause of run() assigns for a caught exception.
ClassifyMutant(e) == IF e = "TestNotApplicable" THEN "not_applicable" ELSE "exception"
Classify(e) ==
    IF e = "TestNotApplicable" THEN "not_applicable"
    ELSE IF e = "TestFailed" THEN "fail" ELSE "exception"

\* The except clauses of run(): TestNotApplicable sets the result and falls
\* through to the finally clause; any other Exception is classified and
\* postMortem is tried; what is not an Exception is not caught.
Except ==
    /\ rpc = "except"
    /\ IF t.lifeExc = "TestNotApplicable"
         THEN /\ t' = [t EXCEPT !.result = Classify(t.lifeExc)]
              /\ rpc' = "finally"
         ELSE IF IsException(t.lifeExc)
           THEN /\ t' = [t EXCEPT !.result = Classify(t.lifeExc)]
                /\ rpc' = "postMortem"
           ELSE /\ t' = [t EXCEPT !.pending = Raised(t.lifeExc, "lifecycle")]
                /\ rpc' = "finally"
    /\ UNCHANGED notRun
    /\ UNCHANGED <<fail_fast, todo, idx, results, count, ret, executed,
                   outcomes, exit_code>>

\* try: self.postMortem() except Exception: (print it); return result
PostMortem ==
    /\ rpc = "postMortem"
    /\ \E raised \in BOOLEAN :
         t' = [t EXCEPT !.pending = Returned(t.result),
                        !.events = Append(@, IF raised THEN "postMortemRaised"
                                                       ELSE "postMortem")]
    /\ rpc' = "finally"
    /\ UNCHANGED notRun
    /\ UNCHANGED <<fail_fast, todo, idx, results, count, ret, executed,
                   outcomes, exit_code>>

\* The end of run() once the finally clause has completed: the pending return
\* or exception, else lines "if not result: result = 'pass'; return result".
EndOfRun(inst) ==
    IF inst.pending.kind # "none" THEN inst.pending
    ELSE IF Truthy(inst.result) THEN Returned(inst.result)
    ELSE Returned("pass")

\* The finally clause of run(): print every log, then classTeardown. An error
\* raised by print_log (the log cannot be opened or written) leaves the clause
\* at once and replaces whatever was pending.
FinallyMutant ==
    /\ rpc = "finally"
    /\ \/ /\ t.logs
          /\ t' = [t EXCEPT !.events = Append(@, "print_log_raised")]
          /\ ret' = Raised("Exception", "print_log")
       \/ /\ t' = [t EXCEPT !.events = @ \o <<"print_log">>]
          /\ ret' = EndOfRun(t)
    /\ rpc' = "ran"
    /\ UNCHANGED notRun
    /\ UNCHANGED <<fail_fast, todo, idx, results, count, executed, outcomes,
                   exit_code>>
Finally ==
    /\ rpc = "finally"
    /\ \/ /\ t.logs
          /\ t' = [t EXCEPT !.events = Append(@, "print_log_raised")]
          /\ ret' = Raised("Exception", "print_log")
       \/ /\ t' = [t EXCEPT !.teardowns = @ + 1, !.owned = FALSE,
                            !.events = @ \o <<"print_log", "classTeardown">>]
          /\ ret' = EndOfRun(t)
    /\ rpc' = "ran"
    /\ UNCHANGED notRun
    /\ UNCHANGED <<fail_fast, todo, idx, results, count, executed, outcomes,
                   exit_code>>

\* results.setdefault(result, []).append((name, log_name))
SetDefaultAppend(d, key, entry) ==
    IF key \in DOMAIN d THEN [d EXCEPT ![key] = Append(@, entry)]
    ELSE d @@ (key :> <<entry>>)

\* run_tests after instance.run(): an exception leaves run_tests through its
\* finally clause; a result is recorded and counted, and a bad one under
\* fail_fast breaks out of the loop.
RecordMutant ==
    /\ rpc = "ran"
    /\ IF ret.kind = "raise"
         THEN /\ rpc' = "aborted"
              /\ UNCHANGED <<idx, results, count, outcomes>>
         ELSE /\ results' = SetDefaultAppend(results, ret.val, todo[idx])
              /\ count' = count + 1
              /\ outcomes' = Append(outcomes, ret.val)
              /\ rpc' = "loop" /\ idx' = idx + 1
    /\ UNCHANGED notRun
    /\ UNCHANGED <<fail_fast, todo, t, ret, executed, exit_code>>
Record ==
    /\ rpc = "ran"
    /\ IF ret.kind = "raise"
         THEN /\ rpc' = "aborted"
              /\ UNCHANGED <<idx, results, count, outcomes>>
         ELSE /\ results' = SetDefaultAppend(results, ret.val, todo[idx])
              /\ count' = count + 1
              /\ outcomes' = Append(outcomes, ret.val)
              /\ IF ret.val \notin good_results /\ fail_fast
                   THEN rpc' = "returned" /\ idx' = idx
                   ELSE rpc' = "loop" /\ idx' = idx + 1
    /\ UNCHANGED notRun
    /\ UNCHANGED <<fail_fast, todo, t, ret, executed, exit_code>>

\* run_tests: the for loop is exhausted, return results, count.
ReturnResults ==
    /\ rpc = "loop"
    /\ idx > Len(todo)
    /\ rpc' = "returned"
    /\ UNCHANGED notRun
    /\ UNCHANGED <<fail_fast, todo, idx, results, count, t, ret, executed,
                   outcomes, exit_code>>

\* print_results: 1 when some key of the dict is not a good result, else 0.
print_resultsMutant(d) ==
    IF \E key \in DOMAIN d : key \notin (good_results \cup {"exception"}) THEN 1 ELSE 0
print_results(d) ==
    IF \E key \in DOMAIN d : key \notin good_results THEN 1 ELSE 0

\* run_all_tests: return print_results(results)
PrintResults ==
    /\ rpc = "returned"
    /\ exit_code' = print_results(results)
    /\ rpc' = "exited"
    /\ UNCHANGED notRun
    /\ UNCHANGED <<fail_fast, todo, idx, results, count, t, ret, executed,
                   outcomes>>

NextRun ==
    \/ StartTest
    \/ EarlyApplicable
    \/ ClassSetup
    \/ Setup
    \/ Test
    \/ Except
    \/ PostMortem
    \/ Finally
    \/ Record
    \/ ReturnResults
    \/ PrintResults

\* ========================================================== run_all_tests

\* hart.misa of a hart whose definition gives a value.
MisaValues == {5}

\* --misaval: not given (None), or a string of hexadecimal digits.
NoMisaval == [given |-> FALSE, digits |-> <<>>]
Misavals == {NoMisaval} \cup {[given |-> TRUE, digits |-> ds] : ds \in {<<0>>, <<1, 15>>}}

\* int(parsed.misaval, 16)
RECURSIVE int16(_)
int16(ds) ==
    IF ds = <<>> THEN 0 ELSE 16 * int16(SubSeq(ds, 1, Len(ds) - 1)) + ds[Len(ds)]

\* The names dir(module) can list, sorted: two test classes (types with a test
\* attribute) and one name that is not a test.
ModuleNames == <<"DebugTest", "StepTest", "helper">>
HasTest(name) == name \in {"DebugTest", "StepTest"}

\* The positional arguments "test": substrings of the names to run.
Filters == {{}, {"Debug"}, {"Step", "Debug"}, {"Nothing"}}

\* "test in name" for the strings above.
Contains(name, sub) ==
    \/ sub = "Debug" /\ name = "DebugTest"
    \/ sub = "Step" /\ name = "StepTest"

\* The subsequence of seq whose elements are in S.
RECURSIVE Keep(_, _)
Keep(seq, S) ==
    IF seq = <<>> THEN <<>>
    ELSE IF Head(seq) \in S THEN <<Head(seq)>> \o Keep(Tail(seq), S)
    ELSE Keep(Tail(seq), S)

\* run_all_tests is called: target.harts, the parsed options, the module.
InitSched ==
    /\ misa \in UNION {[1..n -> MisaValues \cup {None}] : n \in 0..MaxHarts}
    /\ misaval \in Misavals
    /\ parsed_test \in Filters
    /\ \E S \in SUBSET {"DebugTest", "StepTest", "helper"} :
         module = Keep(ModuleNames, S)
    /\ all_todo = <<>>
    /\ examine_added = FALSE
    /\ spc = "harts"
    /\ si = 1

\* run_all_tests is not running.
IdleSched ==
    /\ misa = <<>>
    /\ misaval = NoMisaval
    /\ parsed_test = {}
    /\ module = <<>>
    /\ all_todo = <<>>
    /\ examine_added = FALSE
    /\ spc = "harts"
    /\ si = 1

\* One iteration of "for hart in target.harts": the override sets hart.misa;
\* else a hart with a misa is left alone; else ExamineTarget is put on the
\* todo list unless it was already. None and 0 are both false.
HartStepMutant ==
    /\ spc = "harts"
    /\ si <= Len(misa)
    /\ IF misaval.given
         THEN /\ misa' = [misa EXCEPT ![si] = int16(misaval.digits)]
              /\ UNCHANGED <<all_todo, examine_added>>
         ELSE IF misa[si] \notin {None, 0}
           THEN UNCHANGED <<misa, all_todo, examine_added>>
           ELSE /\ all_todo' = Append(all_todo, "ExamineTarget")
                /\ examine_added' = TRUE
                /\ misa' = misa
    /\ si' = si + 1
    /\ UNCHANGED notSched
    /\ UNCHANGED <<misaval, parsed_test, module, spc>>
HartStep ==
    /\ spc = "harts"
    /\ si <= Len(misa)
    /\ IF misaval.given
         THEN /\ misa' = [misa EXCEPT ![si] = int16(misaval.digits)]
              /\ UNCHANGED <<all_todo, examine_added>>
         ELSE IF misa[si] \notin {None, 0}
           THEN UNCHANGED <<misa, all_todo, examine_added>>
           ELSE IF ~examine_added
             THEN /\ all_todo' = Append(all_todo, "ExamineTarget")
                  /\ examine_added' = TRUE
                  /\ misa' = misa
             ELSE UNCHANGED <<misa, all_todo, examine_added>>
    /\ si' = si + 1
    /\ UNCHANGED notSched
    /\ UNCHANGED <<misaval, parsed_test, module, spc>>

\* The loop over target.harts is exhausted.
HartsDone ==
    /\ spc = "harts"
    /\ si > Len(misa)
    /\ spc' = "module"
    /\ si' = 1
    /\ UNCHANGED notSched
    /\ UNCHANGED <<misa, misaval, parsed_test, module, all_todo, examine_added>>

\* not parsed.test or any(test in name for test in parsed.test)
Selected(name) ==
    parsed_test = {} \/ \E sub \in parsed_test : Contains(name, sub)

\* One iteration of "for name in dir(module)": a type with a test attribute
\* that passes the filter is put on the todo list.
ModuleStep ==
    /\ spc = "module"
    /\ si <= Len(module)
    /\ all_todo' = (IF HasTest(module[si]) /\ Selected(module[si])
                      THEN Append(all_todo, module[si])
                      ELSE all_todo)
    /\ si' = si + 1
    /\ UNCHANGED notSched
    /\ UNCHANGED <<misa, misaval, parsed_test, module, examine_added, spc>>

\* The loop over dir(module) is exhausted: run_tests is called on todo.
ModuleDone ==
    /\ spc = "module"
    /\ si > Len(module)
    /\ spc' = "done"
    /\ UNCHANGED notSched
    /\ UNCHANGED <<misa, misaval, parsed_test, module, all_todo, examine_added,
                   si>>

NextSched ==
    \/ HartStep
    \/ HartsDone
    \/ ModuleStep
    \/ ModuleDone

\* ==================================================================== Gdb

\* The children of a Gdb, one per port, in the order of self.children.
Sessions == 1..NumChildren

\* A command line, a piece of gdb output, a step of a Gdb method, a Thread.
Cmd(n, x) == [n |-> n, x |-> x]
NoCmd == Cmd("", 0)
Tok(k, c, v) == [k |-> k, c |-> c, v |-> v]
Ins(i, s, c, p) == [i |-> i, s |-> s, c |-> c, p |-> p]
Thr(id, name) == [id |-> id, name |-> name]

\* The thread lists a gdb can print for "info threads": "1 Remote target" has
\* no name; "Thread n (Name: ...)" has one.
ThreadLists ==
    { <<Thr(1, "None")>>, <<Thr(1, "Default")>>, <<Thr(1, "Hart 0")>>,
      <<Thr(1, "Hart 1")>>, <<Thr(1, "Hart 0"), Thr(2, "Hart 1")>>,
      <<Thr(1, "Default"), Thr(2, "Hart 0")>>,
      <<Thr(1, "Hart 2"), Thr(2, "Default")>> }

\* re.search(r"Hart (\d+)", t.name) for a thread that has a name: the number,
\* or None.
HartLabel(name) ==
    CASE name = "Hart 0" -> 0
      [] name = "Hart 1" -> 1
      [] name = "Hart 2" -> 2
      [] OTHER -> None

\* All (session, thread) pairs of a configuration, and whether no two of its
\* threads carry the same "Hart N" label.
AllThreads(cfg) ==
    UNION {{<<c, cfg[c][j]>> : j \in DOMAIN cfg[c]} : c \in DOMAIN cfg}
Labelled(cfg) == {ct \in AllThreads(cfg) : HartLabel(ct[2].name) # None}
DistinctLabels(cfg) ==
    \A a, b \in Labelled(cfg) :
        HartLabel(a[2].name) = HartLabel(b[2].name) => a = b

\* d[k] = v on a dict.
Put(d, k, v) == [x \in DOMAIN d \cup {k} |-> IF x = k THEN v ELSE d[x]]

\* max(self.harts)
Max(S) == CHOOSE m \in S : \A x \in S : x <= m

\* The hart id connect gives thread th when self.harts is h.
HartId(h, th) ==
    IF HartLabel(th.name) # None THEN HartLabel(th.name)
    ELSE IF DOMAIN h # {} THEN Max(DOMAIN h) + 1
    ELSE 0

\* "for t in threads: ... self.harts[hartid] = (child, t)" of connect.
RECURSIVE AssignHarts(_, _, _)
AssignHarts(h, child, ths) ==
    IF ths = <<>> THEN h
    ELSE AssignHarts(Put(h, HartId(h, Head(ths)), <<child, Head(ths)>>),
                     child, Tail(ths))

RECURSIVE Flatten(_)
Flatten(ss) == IF ss = <<>> THEN <<>> ELSE Head(ss) \o Flatten(Tail(ss))

\* Steps. Session 0 stands for self.active_child at the time the step runs.
Select(c) == Ins("select", c, NoCmd, "")
SendLine(s, cmd) == Ins("send", s, cmd, "")
Expect(s, pat) == Ins("expect", s, NoCmd, pat)
Enter == Ins("push", 0, NoCmd, "")
Exit == Ins("pop", 0, NoCmd, "")

\* Gdb.wait
WaitProg == <<Expect(0, "prompt")>>

\* Gdb.command: sendline, expect "\n", expect the prompt.
CommandProg(cmd) == <<SendLine(0, cmd), Expect(0, "nl"), Expect(0, "prompt")>>

\* Gdb.connect, for one (port, child) pair.
ConnectChild(c) ==
    <<Select(c)>> \o WaitProg
      \o CommandProg(Cmd("set confirm off", 0))
      \o CommandProg(Cmd("set width 0", 0))
      \o CommandProg(Cmd("set height 0", 0))
      \o CommandProg(Cmd("set print entry-values no", 0))
      \o CommandProg(Cmd("set remotetimeout", 0))
      \o CommandProg(Cmd("target extended-remote", c))
      \o (IF binary THEN CommandProg(Cmd("file", 0)) ELSE <<>>)
      \o CommandProg(Cmd("info threads", 0))
      \o <<Ins("threads", c, NoCmd, "")>>

\* Gdb.connect
ConnectProg == Flatten([c \in Sessions |-> ConnectChild(c)])

\* Gdb.global_command
GlobalCommandProgMutant(cmd) ==
    <<Enter>>
      \o Flatten([c \in Sessions |-> CommandProg(cmd)])
      \o <<Exit>>
GlobalCommandProg(cmd) ==
    <<Enter>>
      \o Flatten([c \in Sessions |-> <<Select(c)>> \o CommandProg(cmd)])
      \o <<Exit>>

\* Gdb.c_all
CAllProgMutant ==
    <<Enter>>
      \o Flatten([c \in Sessions |->
                    <<SendLine(c, Cmd("c", 0)), Expect(c, "Continuing"),
                      Expect(c, "prompt")>>])
      \o <<Exit>>
CAllProg ==
    <<Enter>>
      \o Flatten([c \in Sessions |->
                    <<SendLine(c, Cmd("c", 0)), Expect(c, "Continuing")>>])
      \o [c \in Sessions |-> Expect(c, "prompt")]
      \o <<Exit>>

\* Gdb.interrupt
InterruptProg == <<Ins("sendintr", 0, NoCmd, ""), Expect(0, "prompt")>>

\* Gdb.select_hart, the hart being in self.harts.
SelectHartProgMutant(h) ==
    CommandProg(Cmd("thread", harts[h][2].id))
      \o <<Ins("assertKnown", 0, NoCmd, "")>>
SelectHartProg(h) ==
    <<Select(harts[h][1])>>
      \o CommandProg(Cmd("thread", harts[h][2].id))
      \o <<Ins("assertKnown", 0, NoCmd, "")>>

\* What select_child and select_hart calls a test can make in a block.
FirstCalls == {<<Select(c)>> : c \in Sessions}
LastCalls == {<<>>} \cup {SelectHartProg(h) : h \in DOMAIN harts}

\* "with PrivateState(gdb):" blocks of test code, at most d inside one another:
\* a select_child, maybe an inner block, maybe a select_hart.
RECURSIVE Blocks(_)
Blocks(d) ==
    IF d = 0 THEN {}
    ELSE {<<Enter>> \o a \o b \o c \o <<Exit>> :
            a \in FirstCalls, b \in {<<>>} \cup Blocks(d - 1), c \in LastCalls}

\* Gdb.c
CProg(wait) ==
    IF wait THEN CommandProg(Cmd("c", 0)) \o <<Ins("assertContinuing", 0, NoCmd, "")>>
    ELSE <<SendLine(0, Cmd("c", 0)), Expect(0, "Continuing")>>

\* What gdb prints for "p": a value, that the memory cannot be accessed, or
\* another error; and the value it prints for "x".
ValueOfP == "$1 = 0x5"
ValueOfX == "0x1000: 0x5"
NoAccess == {"Cannot access memory at address 0x10",
             "Cannot access memory at address 0x2a"}
NoSymbol == "No symbol foo in current context."

\* re.search("Cannot access memory at address (0x[0-9a-f]+)", line) and
\* int(m.group(1), 0): the address, or None without a match.
AccessAddr(v) ==
    CASE v = "Cannot access memory at address 0x10" -> 16
      [] v = "Cannot access memory at address 0x2a" -> 42
      [] OTHER -> None

\* The same search over an output of several lines: the first match counts.
SearchCannotAccess(out) ==
    IF \E j \in DOMAIN out : AccessAddr(out[j].v) # None
      THEN AccessAddr(out[CHOOSE j \in DOMAIN out :
                            /\ AccessAddr(out[j].v) # None
                            /\ \A m \in 1..(j - 1) : AccessAddr(out[m].v) = None].v)
      ELSE None

\* Gdb.p_raw: command, raise CannotAccess on a match, return the text after
\* the last "=".
PRawProg ==
    CommandProg(Cmd("p", 0))
      \o <<Ins("cannotAccess", 0, NoCmd, ""), Ins("split", 0, NoCmd, "")>>

\* Gdb.p: command, raise CannotAccess on a match, parse the text after the
\* last "=".
PProg ==
    CommandProg(Cmd("p/x", 0))
      \o <<Ins("cannotAccess", 0, NoCmd, ""), Ins("parse_string", 0, NoCmd, "")>>

\* Gdb.x: command, then int(output.split(':')[1].strip(), 0).
XProg == CommandProg(Cmd("x/w", 0)) \o <<Ins("parse_x", 0, NoCmd, "")>>

\* The error of the last statement of p_raw, p and x on output out, "none"
\* when it returns. p_raw returns a string. p: int() of the text after the
\* last "=" succeeds when the output ends in a printed value. x: without a
\* ":" in the output split(':')[1] is an IndexError; int() of the text after
\* the first ":" succeeds when nothing follows the value.
ParseError(i, out) ==
    CASE i = "split" -> "none"
      [] i = "parse_string" ->
           IF out # <<>> /\ out[Len(out)].v = ValueOfP THEN "none" ELSE "ValueError"
      [] i = "parse_x" ->
           IF \A j \in DOMAIN out : out[j].v # ValueOfX THEN "IndexError"
           ELSE IF /\ out[Len(out)].v = ValueOfX
                   /\ \A j \in 1..(Len(out) - 1) : out[j].v # ValueOfX
                  THEN "none"
           ELSE "ValueError"

\* Whether a piece of output holds a match of an expect pattern: "\n" ends
\* the echo of a command and every output line.
Matches(tok, pat) ==
    CASE pat = "nl" -> tok.k \in {"echo", "out"}
      [] pat = "prompt" -> tok.k = "prompt"
      [] pat = "Continuing" -> tok.k = "cont"
      [] OTHER -> FALSE

\* The place of the first match of pat in buf, 0 when there is none.
FirstMatch(buf, pat) ==
    IF \E j \in DOMAIN buf : Matches(buf[j], pat)
      THEN CHOOSE j \in DOMAIN buf :
             /\ Matches(buf[j], pat)
             /\ \A m \in 1..(j - 1) : ~Matches(buf[m], pat)
      ELSE 0

\* Gdb.__init__: one spawned gdb per port, the first one active.
InitGdbWith(cfgs) ==
    /\ binary \in BOOLEAN
    /\ threadsOf \in cfgs
    /\ active_child = 1
    /\ stack = <<>>
    /\ harts = [x \in {} |-> <<>>]
    /\ inbuf = [s \in Sessions |-> <<>>]
    /\ before = [s \in Sessions |-> <<>>]
    /\ stdin = [s \in Sessions |-> <<>>]
    /\ intr = [s \in Sessions |-> FALSE]
    /\ gst = [s \in Sessions |-> "starting"]
    /\ prog = <<>>
    /\ cur = [name |-> "none", status |-> "new", exc |-> "none",
              arg |-> None, address |-> None,
              saved |-> 1, savedStack |-> <<>>, savedHarts |-> harts]
    /\ nops = 0
    /\ gtrace = <<>>

\* The session a step addresses.
Target(ins) == IF ins.s = 0 THEN active_child ELSE ins.s

\* The method goes on to its next step, or returns after its last one.
Advance ==
    /\ prog' = Tail(prog)
    /\ cur' = [cur EXCEPT !.status = IF Len(prog) = 1 THEN "returned" ELSE "running"]

\* Gdb.pop_state
pop_stateMutant(st) ==
    [active |-> st.active, stack |-> SubSeq(st.stack, 1, Len(st.stack) - 1)]
pop_state(st) ==
    [active |-> st.stack[Len(st.stack)],
     stack |-> SubSeq(st.stack, 1, Len(st.stack) - 1)]

\* Gdb.push_state
push_stateMutant(st) == [active |-> st.active, stack |-> Append(st.stack, 1)]
push_state(st) == [active |-> st.active, stack |-> Append(st.stack, st.active)]

\* PrivateState.__exit__ for each of the k with blocks an exception leaves.
RECURSIVE Unwind(_, _)
Unwind(st, k) == IF k = 0 THEN st ELSE Unwind(pop_state(st), k - 1)

\* The with blocks the steps p are still inside of.
PendingExits(p) == Cardinality({j \in DOMAIN p : p[j].i = "pop"})

\* An exception leaves the method, through the with blocks it is inside of;
\* a is the address a CannotAccess carries.
RaiseWith(e, a) ==
    /\ LET st == Unwind([active |-> active_child, stack |-> stack],
                        PendingExits(Tail(prog)))
       IN  active_child' = st.active /\ stack' = st.stack
    /\ prog' = <<>>
    /\ cur' = [cur EXCEPT !.status = "raised", !.exc = e, !.address = a]

RaiseMutant(e) ==
    /\ active_child' = 1
    /\ stack' = <<>>
    /\ prog' = <<>>
    /\ cur' = [cur EXCEPT !.status = "raised", !.exc = e]
Raise(e) == RaiseWith(e, None)

Event(e, s, c, p) == [e |-> e, s |-> s, c |-> c, p |-> p]

\* A method is called with argument a: its steps become the work to do.
CallWith(name, p, a) ==
    /\ prog' = p
    /\ cur' = [name |-> name, status |-> "running", exc |-> "none",
               arg |-> a, address |-> None,
               saved |-> active_child, savedStack |-> stack,
               savedHarts |-> harts]
    /\ gtrace' = <<>>

Call(name, p) == CallWith(name, p, None)

\* The test may call a method: connect has returned and no method is running.
CanCall ==
    /\ cur.status \in {"returned", "raised"}
    /\ ~(cur.name = "connect" /\ cur.status = "raised")
    /\ nops < MaxOps

StartConnect ==
    /\ cur.status = "new"
    /\ Call("connect", ConnectProg)
    /\ UNCHANGED notGdb
    /\ UNCHANGED <<binary, threadsOf, active_child, stack, harts, inbuf, before,
                   stdin, intr, gst, nops>>

\* What every call of a method by the test does besides Call.
Called ==
    /\ nops' = nops + 1
    /\ UNCHANGED notGdb
    /\ UNCHANGED <<binary, threadsOf, active_child, stack, harts, inbuf, before,
                   stdin, intr, gst>>

StartGlobalCommand ==
    /\ CanCall
    /\ Call("global_command", GlobalCommandProg(Cmd("set arch", 0)))
    /\ Called

StartCAll ==
    /\ CanCall
    /\ Call("c_all", CAllProg)
    /\ Called

StartCommand ==
    /\ CanCall
    /\ Call("command", CommandProg(Cmd("stepi", 0)))
    /\ Called

StartInterrupt ==
    /\ CanCall
    /\ Call("interrupt", InterruptProg)
    /\ Called

StartSelectChild ==
    /\ CanCall
    /\ \E c \in Sessions : Call("select_child", <<Select(c)>>)
    /\ Called

StartSelectHart ==
    /\ CanCall
    /\ \E h \in DOMAIN harts : CallWith("select_hart", SelectHartProg(h), h)
    /\ Called

StartC ==
    /\ CanCall
    /\ \E wait \in BOOLEAN : Call("c", CProg(wait))
    /\ Called

\* Test code enters PrivateState blocks, right after connect or after a
\* select_child.
StartPrivateState ==
    /\ CanCall
    /\ nops = 0
    /\ \E pre \in {<<>>, <<Select(1)>>}, b \in Blocks(MaxDepth) :
         Call("PrivateState", pre \o b)
    /\ Called

StartPRaw ==
    /\ CanCall
    /\ Call("p_raw", PRawProg)
    /\ Called

StartP ==
    /\ CanCall
    /\ Call("p", PProg)
    /\ Called

StartX ==
    /\ CanCall
    /\ Call("x", XProg)
    /\ Called

\* self.active_child = child
ExecSelectMutant ==
    /\ prog # <<>>
    /\ Head(prog).i = "select"
    /\ active_child' = Head(prog).s
    /\ harts' = [h \in DOMAIN harts |-> <<Head(prog).s, harts[h][2]>>]
    /\ Advance
    /\ UNCHANGED notGdb
    /\ UNCHANGED <<binary, threadsOf, stack, inbuf, before, stdin, intr,
                   gst, nops, gtrace>>
ExecSelect ==
    /\ prog # <<>>
    /\ Head(prog).i = "select"
    /\ active_child' = Head(prog).s
    /\ Advance
    /\ UNCHANGED notGdb
    /\ UNCHANGED <<binary, threadsOf, stack, harts, inbuf, before, stdin, intr,
                   gst, nops, gtrace>>

\* child.sendline(command)
ExecSend ==
    /\ prog # <<>>
    /\ Head(prog).i = "send"
    /\ stdin' = [stdin EXCEPT ![Target(Head(prog))] = Append(@, Head(prog).c)]
    /\ gtrace' = Append(gtrace, Event("send", Target(Head(prog)), Head(prog).c, ""))
    /\ Advance
    /\ UNCHANGED notGdb
    /\ UNCHANGED <<binary, threadsOf, active_child, stack, harts, inbuf, before,
                   intr, gst, nops>>

\* child.send("\003")
ExecSendIntr ==
    /\ prog # <<>>
    /\ Head(prog).i = "sendintr"
    /\ intr' = [intr EXCEPT ![Target(Head(prog))] = TRUE]
    /\ gtrace' = Append(gtrace, Event("sendintr", Target(Head(prog)), NoCmd, ""))
    /\ Advance
    /\ UNCHANGED notGdb
    /\ UNCHANGED <<binary, threadsOf, active_child, stack, harts, inbuf, before,
                   stdin, gst, nops>>

\* child.expect(pattern) finds the pattern: the output up to the match is
\* consumed and child.before is what preceded the match.
ExecExpect ==
    /\ prog # <<>>
    /\ Head(prog).i = "expect"
    /\ LET s == Target(Head(prog))
           m == FirstMatch(inbuf[s], Head(prog).p)
       IN  /\ m > 0
           /\ before' = [before EXCEPT ![s] = SubSeq(inbuf[s], 1, m - 1)]
           /\ inbuf' = [inbuf EXCEPT ![s] = SubSeq(inbuf[s], m + 1, Len(inbuf[s]))]
           /\ gtrace' = Append(gtrace, Event("wait", s, NoCmd, Head(prog).p))
    /\ Advance
    /\ UNCHANGED notGdb
    /\ UNCHANGED <<binary, threadsOf, active_child, stack, harts, stdin, intr,
                   gst, nops>>

\* child.expect(pattern) times out: pexpect.TIMEOUT is raised, child.before is
\* the output read so far and nothing is consumed.
ExpectTimeout ==
    /\ prog # <<>>
    /\ Head(prog).i = "expect"
    /\ LET s == Target(Head(prog))
       IN  /\ FirstMatch(inbuf[s], Head(prog).p) = 0
           /\ before' = [before EXCEPT ![s] = inbuf[s]]
           /\ gtrace' = Append(gtrace, Event("wait", s, NoCmd, Head(prog).p))
    /\ Raise("TIMEOUT")
    /\ UNCHANGED notGdb
    /\ UNCHANGED <<binary, threadsOf, harts, inbuf, stdin, intr, gst, nops>>

\* PrivateState.__enter__
ExecPush ==
    /\ prog # <<>>
    /\ Head(prog).i = "push"
    /\ stack' = push_state([active |-> active_child, stack |-> stack]).stack
    /\ gtrace' = Append(gtrace, Event("enter", active_child, NoCmd, ""))
    /\ Advance
    /\ UNCHANGED notGdb
    /\ UNCHANGED <<binary, threadsOf, active_child, harts, inbuf, before, stdin,
                   intr, gst, nops>>

\* PrivateState.__exit__ at the end of the with block.
ExecPop ==
    /\ prog # <<>>
    /\ Head(prog).i = "pop"
    /\ LET st == pop_state([active |-> active_child, stack |-> stack])
       IN  active_child' = st.active /\ stack' = st.stack
    /\ gtrace' = Append(gtrace, Event("exit", active_child', NoCmd, ""))
    /\ Advance
    /\ UNCHANGED notGdb
    /\ UNCHANGED <<binary, threadsOf, harts, inbuf, before, stdin, intr, gst,
                   nops>>

\* The output command() returned holds a piece with value v.
OutputHas(s, v) == \E j \in DOMAIN before[s] : before[s][j].v = v

\* connect after threads(): "assert threads", then the hart ids.
ExecThreads ==
    /\ prog # <<>>
    /\ Head(prog).i = "threads"
    /\ IF OutputHas(active_child, "threads")
         THEN /\ harts' = AssignHarts(harts, Head(prog).s, threadsOf[active_child])
              /\ Advance
              /\ UNCHANGED <<active_child, stack>>
         ELSE /\ Raise("AssertionError")
              /\ harts' = harts
    /\ UNCHANGED notGdb
    /\ UNCHANGED <<binary, threadsOf, inbuf, before, stdin, intr, gst, nops,
                   gtrace>>

\* assert "Unknown" not in output (select_hart); assert "Continuing" in output (c)
ExecAssert ==
    /\ prog # <<>>
    /\ Head(prog).i \in {"assertKnown", "assertContinuing"}
    /\ IF \/ Head(prog).i = "assertKnown" /\ ~OutputHas(active_child, "Unknown")
          \/ Head(prog).i = "assertContinuing" /\ OutputHas(active_child, "Continuing")
         THEN Advance /\ UNCHANGED <<active_child, stack>>
         ELSE Raise("AssertionError")
    /\ UNCHANGED notGdb
    /\ UNCHANGED <<binary, threadsOf, harts, inbuf, before, stdin, intr, gst,
                   nops, gtrace>>

\* m = re.search("Cannot access memory ...", output); if m: raise
\* CannotAccess(int(m.group(1), 0))
ExecCannotAccess ==
    /\ prog # <<>>
    /\ Head(prog).i = "cannotAccess"
    /\ LET a == SearchCannotAccess(before[active_child])
       IN  IF a # None
             THEN RaiseWith("CannotAccess", a)
             ELSE Advance /\ UNCHANGED <<active_child, stack>>
    /\ UNCHANGED notGdb
    /\ UNCHANGED <<binary, threadsOf, harts, inbuf, before, stdin, intr, gst,
                   nops, gtrace>>

\* The last statement of p_raw, p and x: the value is returned or the
\* conversion raises.
ExecParse ==
    /\ prog # <<>>
    /\ Head(prog).i \in {"split", "parse_string", "parse_x"}
    /\ LET e == ParseError(Head(prog).i, before[active_child])
       IN  IF e # "none"
             THEN Raise(e)
             ELSE Advance /\ UNCHANGED <<active_child, stack>>
    /\ UNCHANGED notGdb
    /\ UNCHANGED <<binary, threadsOf, harts, inbuf, before, stdin, intr, gst,
                   nops, gtrace>>

\* What gdb prints for a command line, and what it does next.
Reply(cmd) ==
    CASE cmd.n = "c" ->
           {<<Tok("echo", cmd, ""), Tok("cont", cmd, "Continuing"), Tok("out", cmd, "")>>}
      [] cmd.n = "thread" ->
           {<<Tok("echo", cmd, ""), Tok("out", cmd, v), Tok("prompt", cmd, "")>> :
              v \in {"Switching", "Unknown"}}
      [] cmd.n \in {"p", "p/x"} ->
           {<<Tok("echo", cmd, ""), Tok("out", cmd, v), Tok("prompt", cmd, "")>> :
              v \in {ValueOfP, NoSymbol} \cup NoAccess}
      [] cmd.n = "x/w" ->
           {<<Tok("echo", cmd, ""), Tok("out", cmd, v), Tok("prompt", cmd, "")>> :
              v \in {ValueOfX, NoSymbol} \cup NoAccess}
      [] cmd.n = "info threads" ->
           {<<Tok("echo", cmd, ""), Tok("out", cmd, "threads"), Tok("prompt", cmd, "")>>}
      [] OTHER ->
           {<<Tok("echo", cmd, ""), Tok("out", cmd, ""), Tok("prompt", cmd, "")>>}

\* A gdb that was spawned prints its banner and its first prompt.
GdbBanner ==
    \E s \in Sessions :
        /\ gst[s] = "starting"
        /\ inbuf' = [inbuf EXCEPT ![s] = @ \o <<Tok("out", NoCmd, "banner"),
                                                 Tok("prompt", NoCmd, "")>>]
        /\ gst' = [gst EXCEPT ![s] = "idle"]
        /\ UNCHANGED notGdb
        /\ UNCHANGED <<binary, threadsOf, active_child, stack, harts, before,
                       stdin, intr, prog, cur, nops, gtrace>>

\* A gdb at its prompt reads the next line and answers it; "c" resumes the
\* target and the prompt comes back only when the target halts.
GdbExec ==
    \E s \in Sessions :
        /\ gst[s] = "idle"
        /\ stdin[s] # <<>>
        /\ \E r \in Reply(Head(stdin[s])) :
             inbuf' = [inbuf EXCEPT ![s] = @ \o r]
        /\ stdin' = [stdin EXCEPT ![s] = Tail(@)]
        /\ gst' = [gst EXCEPT ![s] = IF Head(stdin[s]).n = "c" THEN "running" ELSE "idle"]
        /\ UNCHANGED notGdb
        /\ UNCHANGED <<binary, threadsOf, active_child, stack, harts, before,
                       intr, prog, cur, nops, gtrace>>

\* The target of a gdb halts (a breakpoint, the end of a step).
GdbHalt ==
    \E s \in Sessions :
        /\ gst[s] = "running"
        /\ inbuf' = [inbuf EXCEPT ![s] = @ \o <<Tok("out", NoCmd, "halted"),
                                                 Tok("prompt", NoCmd, "")>>]
        /\ gst' = [gst EXCEPT ![s] = "idle"]
        /\ UNCHANGED notGdb
        /\ UNCHANGED <<binary, threadsOf, active_child, stack, harts, before,
                       stdin, intr, prog, cur, nops, gtrace>>

\* A gdb acts on ctrl-C: a running target is halted; at the prompt gdb prints
\* "Quit" and a new prompt.
GdbInterrupted ==
    \E s \in Sessions :
        /\ intr[s]
        /\ gst[s] # "starting"
        /\ inbuf' = [inbuf EXCEPT ![s] =
                       @ \o <<Tok("out", NoCmd, IF gst[s] = "running" THEN "halted" ELSE "Quit"),
                              Tok("prompt", NoCmd, "")>>]
        /\ gst' = [gst EXCEPT ![s] = "idle"]
        /\ intr' = [intr EXCEPT ![s] = FALSE]
        /\ UNCHANGED notGdb
        /\ UNCHANGED <<binary, threadsOf, active_child, stack, harts, before,
                       stdin, prog, cur, nops, gtrace>>

\* connect alone, for every thread configuration.
NextConnect ==
    \/ StartConnect
    \/ ExecSelect
    \/ ExecSend
    \/ ExecExpect
    \/ ExpectTimeout
    \/ ExecThreads
    \/ GdbBanner
    \/ GdbExec

\* connect and the methods a test calls after it.
NextGdb ==
    \/ StartConnect
    \/ StartGlobalCommand
    \/ StartCAll
    \/ StartCommand
    \/ StartInterrupt
    \/ StartSelectChild
    \/ StartSelectHart
    \/ StartC
    \/ ExecSelect
    \/ ExecSend
    \/ ExecSendIntr
    \/ ExecExpect
    \/ ExpectTimeout
    \/ ExecPush
    \/ ExecPop
    \/ ExecThreads
    \/ ExecAssert
    \/ GdbBanner
    \/ GdbExec
    \/ GdbHalt
    \/ GdbInterrupted

\* connect and nested PrivateState blocks of test code.
NextPrivate ==
    \/ StartConnect
    \/ StartPrivateState
    \/ ExecSelect
    \/ ExecSend
    \/ ExecExpect
    \/ ExpectTimeout
    \/ ExecPush
    \/ ExecPop
    \/ ExecThreads
    \/ ExecAssert
    \/ GdbBanner
    \/ GdbExec

\* connect and the read operations p_raw, p and x.
NextRead ==
    \/ StartConnect
    \/ StartPRaw
    \/ StartP
    \/ StartX
    \/ ExecSelect
    \/ ExecSend
    \/ ExecExpect
    \/ ExpectTimeout
    \/ ExecThreads
    \/ ExecCannotAccess
    \/ ExecParse
    \/ GdbBanner
    \/ GdbExec

\* Thread configurations with no "Hart N" label given twice.
ThreadConfigs == {cfg \in [Sessions -> ThreadLists] : DistinctLabels(cfg)}

\* The configuration of the multi-gdb setup: one unnamed thread per gdb; and
\* of the single-gdb setup: named harts on the first gdb.
UsualConfigs ==
    {[s \in Sessions |-> <<Thr(1, "None")>>],
     [s \in Sessions |-> IF s = 1 THEN <<Thr(1, "Hart 0"), Thr(2, "Hart 1")>>
                         ELSE <<Thr(1, "None")>>]}

\* No Gdb object in use.
IdleGdb == InitGdbWith({[s \in Sessions |-> <<Thr(1, "None")>>]}) /\ binary = FALSE

\* ---------------------------------------------------------- claims: Gdb

\* The event is a resume command sent to session s.
IsResume(ev, s) == ev.e = "send" /\ ev.s = s /\ ev.c.n = "c"

\* The event is a wait for a (gdb) prompt.
IsPromptWait(ev) == ev.e = "wait" /\ ev.p = "prompt"

\* c_all is blocked in, or about to enter, a wait for a (gdb) prompt.
WaitingForHalt ==
    /\ prog # <<>>
    /\ Head(prog).i = "expect"
    /\ Head(prog).p = "prompt"

\* C1: c_all has sent the resume command to every session before it begins to
\* wait for any session's (gdb) prompt: every resume of the call precedes its
\* first prompt wait, and no session is left out.
C1_ResumeAllBeforeWait ==
    cur.name = "c_all" =>
        /\ WaitingForHalt =>
               \A s \in Sessions : \E j \in DOMAIN gtrace : IsResume(gtrace[j], s)
        /\ \A i \in DOMAIN gtrace :
               IsPromptWait(gtrace[i]) =>
                   /\ \A s \in Sessions :
                          \E j \in 1..(i - 1) : IsResume(gtrace[j], s)
                   /\ \A j \in DOMAIN gtrace :
                          gtrace[j].e = "send" => j < i

\* C1 witness: c_all has seen the first session halt and waits for the second,
\* which is still running.
C1_Witness ==
    /\ cur.name = "c_all"
    /\ cur.status = "running"
    /\ WaitingForHalt
    /\ Head(prog).s = 2
    /\ gst[2] = "running"
    /\ \E i \in DOMAIN gtrace : IsPromptWait(gtrace[i])

\* C2: when global_command is over, by return or by an exception of an inner
\* command, the active session is the one that was active when it was called.
C2_ActiveRestored ==
    (cur.name = "global_command" /\ cur.status \in {"returned", "raised"}) =>
        /\ active_child = cur.saved
        /\ stack = cur.savedStack

\* C2 witness: global_command was called with the second session active and
\* its command timed out on the first session.
C2_Witness ==
    /\ cur.name = "global_command"
    /\ cur.status = "raised"
    /\ cur.exc = "TIMEOUT"
    /\ cur.saved = 2
    /\ gtrace # <<>>
    /\ gtrace[Len(gtrace)].s = 1

\* C9: after connect every thread of every session is in the hart map under
\* an id of its own, a thread named "Hart N" under N.
C9_NoCollision ==
    (cur.name = "connect" /\ cur.status = "returned") =>
        /\ \A ct \in AllThreads(threadsOf) :
               \E h \in DOMAIN harts : harts[h] = ct
        /\ \A ct \in Labelled(threadsOf) :
               /\ HartLabel(ct[2].name) \in DOMAIN harts
               /\ harts[HartLabel(ct[2].name)] = ct

\* The gdb of session s is at its prompt and has answered every line sent.
Answered(s) == gst[s] = "idle" /\ stdin[s] = <<>>

\* C13: a command line is sent to a session only when the session is Ready:
\* its gdb has printed its first prompt and has answered every command line
\* sent before with a prompt. (interrupt sends ctrl-C, not a command line.)
C13_SendOnlyWhenReady ==
    [][\A s \in Sessions :
          Len(stdin'[s]) > Len(stdin[s]) => Answered(s)]_vars

\* The thread-switch command of select_hart(h), as sent on h's session.
ThreadSwitch(h) ==
    Event("send", harts[h][1], Cmd("thread", harts[h][2].id), "")

C15_TimeoutAbortsWaitOnly ==
    (/\ cur.name \in {"command", "interrupt", "c_all"}
     /\ cur.exc = "TIMEOUT") =>
        /\ cur.status = "raised"
        /\ active_child = cur.saved
        /\ harts = cur.savedHarts
        /\ DOMAIN gst = Sessions
        /\ \A s \in Sessions : gst[s] \in {"idle", "running"}

\* C15 witness: c_all, called with the second session active, timed out
\* waiting for a target that is still running.
C15_Witness ==
    /\ cur.name = "c_all"
    /\ cur.status = "raised"
    /\ cur.exc = "TIMEOUT"
    /\ cur.saved = 2
    /\ \E s \in Sessions : gst[s] = "running"

\* The hart map connect builds from the threads the gdbs list.
RECURSIVE HartsFrom(_, _)
HartsFrom(h, c) ==
    IF c > NumChildren THEN h
    ELSE HartsFrom(AssignHarts(h, c, threadsOf[c]), c + 1)

\* connect has returned, and maybe methods were called after it.
Connected == nops > 0 \/ (cur.name = "connect" /\ cur.status = "returned")

\* C19: once connect has returned the hart map is the one connect built and
\* no method changes it, whether it returns or raises.
C19_HartMapFixed ==
    Connected =>
        /\ harts = HartsFrom([x \in {} |-> <<>>], 1)
        /\ harts = cur.savedHarts \/ cur.name = "connect"

\* C19 witness: two methods were called after connect, the second one raised,
\* and the active session is no longer the first.
C19_Witness ==
    /\ nops = 2
    /\ cur.status = "raised"
    /\ active_child = 2
    /\ Cardinality(DOMAIN harts) = 2

\* The places of gtrace where the method wrote to a session.
Sends == {j \in DOMAIN gtrace : gtrace[j].e \in {"send", "sendintr"}}

\* C23: when global_command(cmd) has returned, it sent cmd once to every
\* session and nothing else to any session, and after each send it waited for
\* the prompt of that session before it addressed another session.
C23_BroadcastOnce ==
    (cur.name = "global_command" /\ cur.status = "returned") =>
        /\ \A j \in Sends : gtrace[j] = Event("send", gtrace[j].s, Cmd("set arch", 0), "")
        /\ \A s \in Sessions : Cardinality({j \in Sends : gtrace[j].s = s}) = 1
        /\ \A j \in Sends :
               \E i \in (j + 1)..Len(gtrace) :
                   /\ IsPromptWait(gtrace[i])
                   /\ \A m \in j..i : gtrace[m].s = gtrace[j].s

\* C23 witness: global_command was called with the second session active and
\* has returned after a send to the first session and one to the second.
C23_Witness ==
    /\ cur.name = "global_command"
    /\ cur.status = "returned"
    /\ cur.saved = 2
    /\ \E i, j \in Sends : i < j /\ gtrace[i].s = 1 /\ gtrace[j].s = 2

\* The command line command() sent in the call that has returned.
OwnCmd == Cmd("stepi", 0)

\* C24: when command(c) has returned, what it returns (child.before) is output
\* gdb printed for c, the prompt it consumed ended the response to c (nothing
\* of c's response is unread and c is not still waiting to be read by gdb),
\* also after an earlier command timed out or after c(wait=False).
C24_OwnOutputOnly ==
    (cur.name = "command" /\ cur.status = "returned") =>
        /\ \A j \in DOMAIN before[active_child] :
               /\ before[active_child][j].c = OwnCmd
               /\ before[active_child][j].k = "out"
        /\ stdin[active_child] = <<>>
        /\ inbuf[active_child] = <<>>


\* The state of the runner's variables while no suite runs.
IdleRun ==
    /\ fail_fast = FALSE
    /\ todo = <<>>
    /\ idx = 1
    /\ results = [k \in {} |-> <<>>]
    /\ count = 0
    /\ rpc = "loop"
    /\ t = NewInstance
    /\ ret = NoRet
    /\ executed = <<>>
    /\ outcomes = <<>>
    /\ exit_code = -1

\* No wrapper under construction: the runner's steps do not look at one.
NoWrapper == wkind = "Spike" /\ with_jtag_gdb = TRUE /\ announce = <<7>> /\ IdleProc

\* run_tests on a todo list, from its first line to the exit status.
InitRunner == InitRun /\ NoWrapper /\ IdleGdb /\ IdleSched
SpecRun == InitRunner /\ [][NextRun]_vars

\* The life of one wrapper: its constructor, the process it spawns, its release.
InitWrapper == InitProc /\ IdleRun /\ IdleGdb /\ IdleSched
SpecProc == InitWrapper /\ [][NextProc]_vars

\* Gdb.__init__ and connect, whatever threads the gdbs list.
InitConnect == InitGdbWith(ThreadConfigs) /\ IdleRun /\ NoWrapper /\ IdleSched
SpecConnect == InitConnect /\ [][NextConnect]_vars

\* A Gdb from __init__ through connect and the methods a test calls on it.
InitSessions == InitGdbWith(UsualConfigs) /\ IdleRun /\ NoWrapper /\ IdleSched
SpecGdb == InitSessions /\ [][NextGdb]_vars

\* A Gdb from __init__ through connect and the reads a test does with it.
SpecRead == InitSessions /\ [][NextRead]_vars

\* A Gdb from __init__ through connect and the PrivateState blocks of a test.
SpecPrivate == InitSessions /\ [][NextPrivate]_vars

\* The blocks open after the first i events: entered and not yet left.
OpenAt(i) ==
    Cardinality({j \in 1..i : gtrace[j].e = "enter"})
      - Cardinality({j \in 1..i : gtrace[j].e = "exit"})

\* The place of the __enter__ of the block that the __exit__ at place i leaves.
EnterOf(i) ==
    CHOOSE j \in 1..(i - 1) :
        /\ gtrace[j].e = "enter"
        /\ OpenAt(j) = OpenAt(i) + 1
        /\ \A m \in (j + 1)..(i - 1) : OpenAt(m) >= OpenAt(j)

\* The place of the __enter__ of the outermost block.
FirstEnter == CHOOSE j \in DOMAIN gtrace :
                  gtrace[j].e = "enter" /\ \A m \in 1..(j - 1) : gtrace[m].e # "enter"

\* C22: with PrivateState blocks inside one another and select_child and
\* select_hart calls in them, every block that is left leaves the session
\* active that was active when it was entered, the stack is as deep as there
\* are open blocks, and once all blocks are left, by their end or by an
\* exception, the stack is empty and the session active at the entry of the
\* outermost block is active.
C22_PrivateStateNests ==
    cur.name = "PrivateState" =>
        /\ \A i \in DOMAIN gtrace :
               gtrace[i].e = "exit" => gtrace[i].s = gtrace[EnterOf(i)].s
        /\ cur.status = "running" => Len(stack) = OpenAt(Len(gtrace))
        /\ cur.status \in {"returned", "raised"} =>
               /\ stack = <<>>
               /\ \A j \in DOMAIN gtrace :
                      gtrace[j].e = "enter" => active_child = gtrace[FirstEnter].s

\* C22 witness: two blocks were open, entered with different sessions active,
\* when the select_hart of the inner one raised; the outer block was entered
\* with a session active that is not the one connect left.
C22_Witness ==
    /\ cur.name = "PrivateState"
    /\ cur.status = "raised"
    /\ OpenAt(Len(gtrace)) = 2
    /\ \E i, j \in DOMAIN gtrace :
          /\ i < j
          /\ gtrace[i].e = "enter" /\ gtrace[j].e = "enter"
          /\ gtrace[i].s = 1 /\ gtrace[j].s = 2
    /\ active_child = 1

\* p_raw, p or x is over and its command was answered.
ReadOver ==
    /\ cur.name \in {"p_raw", "p", "x"}
    /\ cur.status \in {"returned", "raised"}
    /\ cur.exc # "TIMEOUT"

\* C12: p, p_raw and x raise CannotAccess, with the address of the response,
\* exactly when gdb's response matches "Cannot access memory at address
\* 0x...": such a response is neither returned nor turned into another
\* error, and no other response raises CannotAccess.
C12_CannotAccessExactly ==
    ReadOver =>
        LET a == SearchCannotAccess(before[active_child])
        IN  /\ a # None =>
                   /\ cur.status = "raised"
                   /\ cur.exc = "CannotAccess"
                   /\ cur.address = a
            /\ a = None => cur.exc # "CannotAccess"

\* run_all_tests from its call to the call of run_tests.
InitScheduler == InitSched /\ IdleRun /\ NoWrapper /\ IdleGdb
SpecSched == InitScheduler /\ [][NextSched]_vars

\* The places of ExamineTarget in the todo list.
ExaminePlaces == {j \in DOMAIN all_todo : all_todo[j] = "ExamineTarget"}

\* C25: when run_all_tests has built its todo list, ExamineTarget is on it at
\* most once and then first, and it is on it exactly when no misa override
\* is given and some hart has no misa, whatever the test-name filter; with
\* the override every hart's misa is the override value.
C25_ExamineScheduling ==
    spc = "done" =>
        /\ Cardinality(ExaminePlaces) <= 1
        /\ ExaminePlaces \subseteq {1}
        /\ (ExaminePlaces # {}) <=>
               (~misaval.given /\ \E i \in DOMAIN misa : misa[i] = None)
        /\ misaval.given =>
               \A i \in DOMAIN misa : misa[i] = int16(misaval.digits)

\* C25 witness: two harts without misa, no override and a filter that names
\* another test: ExamineTarget is scheduled once, ahead of the filtered test.
C25_Witness ==
    /\ spc = "done"
    /\ misa = <<None, None>>
    /\ ~misaval.given
    /\ parsed_test = {"Step", "Debug"}
    /\ all_todo = <<"ExamineTarget", "DebugTest", "StepTest">>

\* ------------------------------------------------------- claims: the runner

\* The runner is back in run_tests after a run() that entered its try block.
RanLifecycle == rpc = "ran" /\ t.early

\* C3: every run() with early_applicable true has executed classTeardown exactly
\* once when it returns or propagates an error, whatever raised inside it and
\* whatever happened while the logs were printed.
C3_TeardownExactlyOnce == RanLifecycle => t.teardowns = 1

\* The outcome C5 states for what the lifecycle raised.
C5_StatedOutcome(e) ==
    CASE e = "TestFailed" -> "fail"
      [] e = "TestNotApplicable" -> "not_applicable"
      [] e = "none" -> "pass"
      [] OTHER -> "exception"

C5_AmendedOutcome(e, v) ==
    CASE e = "TestFailed" -> "fail"
      [] e = "TestNotApplicable" -> "not_applicable"
      [] e = "none" -> IF v = "None" THEN "pass" ELSE v
      [] OTHER -> "exception"

RecordedNames(d) == UNION {{d[k][j] : j \in DOMAIN d[k]} : k \in DOMAIN d}

\* The number of entries of the results dict under outcome o.
CountOf(d, o) == IF o \in DOMAIN d THEN Len(d[o]) ELSE 0

\* The number of executed tests that had outcome o.
Tally(o) == Cardinality({k \in DOMAIN outcomes : outcomes[k] = o})

\* Each executed test has exactly one entry, under its own outcome.
OneEntryEach ==
    /\ Len(outcomes) = Len(executed)
    /\ \A k \in DOMAIN outcomes :
         /\ outcomes[k] \in DOMAIN results
         /\ Cardinality({j \in DOMAIN results[outcomes[k]] :
                            results[outcomes[k]][j] = executed[k]}) = 1
    /\ \A o \in DOMAIN results : CountOf(results, o) = Tally(o)

\* run_tests is over: it returned, or an exception left it.
RunTestsOver == rpc \in {"returned", "aborted", "exited"}

\* C6: with fail-fast disabled run_tests executes every test of the todo list
\* once and in order, whatever the earlier outcomes, and the results dict holds
\* exactly one entry per executed test under that test's outcome.
C6_AllTestsRun ==
    (RunTestsOver /\ ~fail_fast) =>
        /\ executed = todo
        /\ count = Len(todo)
        /\ OneEntryEach

\* C7: with fail-fast enabled, the first test whose outcome is outside
\* {pass, not_applicable} is recorded and counted and is the last test
\* instantiated or executed: run_tests has stopped right after it.
C7_FailFastStops ==
    fail_fast =>
        \A k \in DOMAIN outcomes :
            outcomes[k] \notin good_results =>
                /\ k = Len(outcomes)
                /\ Len(executed) = k
                /\ rpc \in {"returned", "exited"}
                /\ count = k
                /\ executed[k] \in RecordedNames(results)
                /\ CountOf(results, outcomes[k]) = 1

\* C7 witness: fail-fast stopped the run after a bad outcome with tests left.
C7_Witness ==
    /\ fail_fast
    /\ rpc = "returned"
    /\ Len(executed) = 2
    /\ Len(todo) = 3
    /\ outcomes[1] = "pass"
    /\ outcomes[2] = "fail"

\* C8: the exit status of print_results is 0 if every recorded outcome is in
\* {pass, not_applicable} and 1 otherwise, the empty run included.
C8_ExitStatus ==
    rpc = "exited" =>
        exit_code = (IF \A k \in DOMAIN outcomes : outcomes[k] \in good_results
                       THEN 0 ELSE 1)

\* C8 witness: a run with outcomes pass, fail and exception exited with 1.
C8_Witness ==
    /\ rpc = "exited"
    /\ outcomes = <<"pass", "fail", "exception">>
    /\ exit_code = 1

\* The outcomes of the specification's TestOutcome.
OutcomeKinds == {"pass", "not_applicable", "fail", "exception"}

\* C16: every outcome run_tests records, and every key of its results dict,
\* is one of 'pass', 'not_applicable', 'fail', 'exception', whatever the test
\* body did or returned.
C16_OutcomeKinds ==
    /\ \A k \in DOMAIN outcomes : outcomes[k] \in OutcomeKinds
    /\ DOMAIN results \subseteq OutcomeKinds

\* C18: tests run one after the other: whenever run_tests is at the top of
\* its loop, about to instantiate the next test, the test before has been
\* torn down (classTeardown ran once if classSetup was entered) and owns no
\* process or session.
C18_SequentialTests ==
    rpc = "loop" =>
        /\ ~t.owned
        /\ t.events # <<>> => t.teardowns = 1

\* C18 witness: the first test created its processes, ran and was torn down,
\* and run_tests is about to instantiate the second.
C18_Witness ==
    /\ rpc = "loop"
    /\ idx = 2
    /\ Len(todo) >= 2
    /\ t.events = <<"classSetup", "setup", "test", "print_log", "classTeardown">>
    /\ ~t.owned

\* The place of event e in the events of the test instance, 0 when absent.
EventAt(e) ==
    IF \E j \in DOMAIN t.events : t.events[j] = e
      THEN CHOOSE j \in DOMAIN t.events : t.events[j] = e
      ELSE 0

\* C26: when the lifecycle raised and postMortem raised in turn, run() still
\* returns the outcome of the first exception ('fail' or 'exception'), and
\* classTeardown has run, after postMortem.
C26_PostMortemFailure ==
    (RanLifecycle /\ EventAt("postMortemRaised") > 0) =>
        /\ ret.kind = "return"
        /\ ret.val = Classify(t.lifeExc)
        /\ ret.val \in {"fail", "exception"}
        /\ t.teardowns = 1
        /\ EventAt("classTeardown") > EventAt("postMortemRaised")

====
